---- MODULE Spec2Model ----
(***************************************************************************)
(* Model of MemoryLoopDetector                                             *)
(* (src/mcp-instrumentation/examples/memory_loop_detection.py).            *)
(*                                                                         *)
(* Strings are sequences of tokens.  A query token is a word, the blank    *)
(* " " or the suffix "_expanded"; an operation token is a word or ":".     *)
(* Time is the wall clock in whole seconds; one atomic step of a coroutine *)
(* (the code between two awaits) reads a single clock value.               *)
(* The telemetry calls (spans, counters, histograms) change no detector    *)
(* state and are left out.                                                 *)
(***************************************************************************)
EXTENDS Integers, Sequences, FiniteSets, TLC

VARIABLES
    now,              \* datetime.now(), in seconds
    max_depth,        \* self.max_depth
    max_repeats,      \* self.max_repeats
    time_window,      \* self.time_window, in seconds
    states,           \* self.states: trace id -> LoopDetectionState
    global_patterns,  \* self.global_patterns
    stacks,           \* per task: the suspended frames of memory_search_with_loop_detection
    ret,              \* per task: the value the last top-level call returned
    log,              \* the calls of the entry point, in order, with their classification
    flip,             \* toggles at every call of the entry point
    env               \* what the callers submit: tasks, traces, operations, queries, depths

vars == <<now, max_depth, max_repeats, time_window, states, global_patterns,
          stacks, ret, log, flip, env>>

----------------------------------------------------------------------------
(* Strings                                                                 *)

\* str.lower(), token by token
Lower(tok) ==
    CASE tok = "QUERY_A" -> "query_a"
      [] tok = "Docker Error" -> "docker error"
      [] tok = "Recursive Query" -> "recursive query"
      [] OTHER -> tok

LowerStr(s) == [i \in 1..Len(s) |-> Lower(s[i])]

\* the whitespace tokens: the blank and the tab
IsSpace(tok) == tok \in {" ", "\t"}

RECURSIVE LStrip(_)
LStrip(s) == IF s # <<>> /\ IsSpace(Head(s)) THEN LStrip(Tail(s)) ELSE s

RECURSIVE RStrip(_)
RStrip(s) == IF s # <<>> /\ IsSpace(s[Len(s)]) THEN RStrip(SubSeq(s, 1, Len(s) - 1)) ELSE s

\* str.strip()
Strip(s) == RStrip(LStrip(s))

\* hashlib.md5(text.encode()).hexdigest()[:8], tabulated on the texts the model uses
Md5Hex8(s) ==
    CASE s = <<"find similar documents">> -> "8bc501c2"
      [] s = <<"query_a">> -> "86532947"
      [] s = <<"query_b">> -> "7cc28164"
      [] s = <<"query_c">> -> "3c3c0f71"
      [] s = <<"docker error">> -> "0ef043d5"
      [] s = <<"Docker Error">> -> "ecfbccac"
      [] s = <<"recursive query">> -> "6c4ba9bf"
      [] s = <<"recursive query", "_expanded">> -> "f2a0fe10"
      [] s = <<"recursive query", "_expanded", "_expanded">> -> "2a323f22"
      [] s = <<"recursive query", "_expanded", "_expanded", "_expanded">> -> "a9e20674"
      [] s = <<"recursive query", "_expanded", "_expanded", "_expanded", "_expanded">> -> "78c1bea1"

\* "recursive" in query.lower()
ContainsRecursive(query) ==
    \E i \in 1..Len(query) : Lower(query[i]) = "recursive query"

\* text.split(':'): the segments between the ":" tokens
RECURSIVE SplitColon(_)
SplitColon(s) ==
    IF \A i \in 1..Len(s) : s[i] # ":"
    THEN <<s>>
    ELSE LET i == CHOOSE j \in 1..Len(s) :
                      s[j] = ":" /\ \A k \in 1..(j - 1) : s[k] # ":"
         IN  <<SubSeq(s, 1, i - 1)>> \o SplitColon(SubSeq(s, i + 1, Len(s)))

----------------------------------------------------------------------------
(* OperationSignature and LoopDetectionState                               *)

NoSignature == <<>>        \* loop_signature = None

\* a mutant of from_query: the query is not lower-cased
from_query_CaseSensitive(operation, query, t) ==
    [operation |-> operation,
     query_hash |-> Md5Hex8(Strip(query)),
     timestamp |-> t]

\* OperationSignature.from_query at clock value t
from_query(operation, query, t) ==
    [operation |-> operation,
     query_hash |-> Md5Hex8(Strip(LowerStr(query))),
     timestamp |-> t]

\* f"{sig.operation}:{sig.query_hash}"
SigKey(sig) == sig.operation \o <<":">> \o <<sig.query_hash>>

\* defaultdict(int): operation_counts is kept as a function on the keys counted at
\* least once; a key the code only read (and so inserted with 0) reads as 0 too.
EmptyCounts == [k \in {} |-> 0]

\* state.operation_counts[key]
CountOf(counts, key) == IF key \in DOMAIN counts THEN counts[key] ELSE 0

\* a mutant of Increment: the count is set to 1 instead of raised by 1
Increment_SetToOne(counts, key) ==
    [k \in DOMAIN counts \cup {key} |-> IF k = key THEN 1 ELSE counts[k]]

\* state.operation_counts[key] += 1
Increment(counts, key) ==
    [k \in DOMAIN counts \cup {key} |-> IF k = key THEN CountOf(counts, key) + 1 ELSE counts[k]]

\* LoopDetectionState(trace_id)
NewState(trace_id) ==
    [trace_id |-> trace_id,
     operations |-> <<>>,
     operation_counts |-> EmptyCounts,
     depth |-> 0,
     loop_detected |-> FALSE,
     loop_signature |-> NoSignature]

Max(a, b) == IF a >= b THEN a ELSE b

Min(a, b) == IF a <= b THEN a ELSE b

----------------------------------------------------------------------------
(* The classifier                                                          *)

RapidWindowSeconds == 5     \* timedelta(seconds=5)
RapidThreshold == 3         \* >= 3
CircularMinHistory == 4     \* len(state.operations) < 4
CircularLookback == 10      \* state.operations[-10:]
CircularMaxPattern == 5     \* min(5, len(recent) // 2)

\* the last n elements of s: s[-n:]
LastN(s, n) == SubSeq(s, Max(1, Len(s) - n + 1), Len(s))

\* MemoryLoopDetector._detect_circular_pattern
DetectCircularPattern(state) ==
    IF Len(state.operations) < CircularMinHistory
    THEN FALSE
    ELSE LET recent == [i \in 1..Len(LastN(state.operations, CircularLookback)) |->
                           SigKey(LastN(state.operations, CircularLookback)[i])]
             n == Len(recent)
         IN  \E pattern_len \in 2..(Min(CircularMaxPattern, n \div 2) - 1) :
                 SubSeq(recent, n - 2 * pattern_len + 1, n - pattern_len)
                     = SubSeq(recent, n - pattern_len + 1, n)

\* a mutant of RecentMatches: entries of any age count
RecentMatches_AnyAge(state, sig_key) ==
    {i \in 1..Len(state.operations) :
        <<state.operations[i].query_hash>> = SplitColon(sig_key)[2]}

\* the entries of recent_ops whose query_hash equals sig_key.split(':')[1]
RecentMatches(state, sig_key) ==
    {i \in 1..Len(state.operations) :
        /\ now - state.operations[i].timestamp < RapidWindowSeconds
        /\ <<state.operations[i].query_hash>> = SplitColon(sig_key)[2]}

\* a mutant of DetectLoop: rule 1 compares with > instead of >=
DetectLoop_StrictCount(state, sig_key) ==
    IF CountOf(state.operation_counts, sig_key) > max_repeats THEN "exact_repetition"
    ELSE IF state.depth >= max_depth THEN "max_depth_exceeded"
    ELSE IF Cardinality(RecentMatches(state, sig_key)) >= RapidThreshold
         THEN "rapid_repetition"
    ELSE IF DetectCircularPattern(state) THEN "circular_dependency"
    ELSE IF sig_key \in global_patterns THEN "global_pattern_repetition"
    ELSE "none"

\* a mutant of DetectLoop: the depth limit is tested before the repetition count
DetectLoop_DepthFirst(state, sig_key) ==
    IF state.depth >= max_depth THEN "max_depth_exceeded"
    ELSE IF CountOf(state.operation_counts, sig_key) >= max_repeats THEN "exact_repetition"
    ELSE IF Cardinality(RecentMatches(state, sig_key)) >= RapidThreshold
         THEN "rapid_repetition"
    ELSE IF DetectCircularPattern(state) THEN "circular_dependency"
    ELSE IF sig_key \in global_patterns THEN "global_pattern_repetition"
    ELSE "none"

\* a mutant of DetectLoop: the depth is not checked
DetectLoop_NoDepth(state, sig_key) ==
    IF CountOf(state.operation_counts, sig_key) >= max_repeats THEN "exact_repetition"
    ELSE IF Cardinality(RecentMatches(state, sig_key)) >= RapidThreshold
         THEN "rapid_repetition"
    ELSE IF DetectCircularPattern(state) THEN "circular_dependency"
    ELSE IF sig_key \in global_patterns THEN "global_pattern_repetition"
    ELSE "none"

\* a mutant of DetectLoop: the registry is not consulted
DetectLoop_NoGlobal(state, sig_key) ==
    IF CountOf(state.operation_counts, sig_key) >= max_repeats THEN "exact_repetition"
    ELSE IF state.depth >= max_depth THEN "max_depth_exceeded"
    ELSE IF Cardinality(RecentMatches(state, sig_key)) >= RapidThreshold
         THEN "rapid_repetition"
    ELSE IF DetectCircularPattern(state) THEN "circular_dependency"
    ELSE "none"

\* MemoryLoopDetector._detect_loop; "none" is None
DetectLoop(state, sig_key) ==
    IF CountOf(state.operation_counts, sig_key) >= max_repeats THEN "exact_repetition"
    ELSE IF state.depth >= max_depth THEN "max_depth_exceeded"
    ELSE IF Cardinality(RecentMatches(state, sig_key)) >= RapidThreshold
         THEN "rapid_repetition"
    ELSE IF DetectCircularPattern(state) THEN "circular_dependency"
    ELSE IF sig_key \in global_patterns THEN "global_pattern_repetition"
    ELSE "none"

\* a mutant of HandleLoopBreak: the generic branch raises instead of returning
HandleLoopBreak_Raises(query, loop_type, state) ==
    CASE loop_type = "exact_repetition" ->
            [results |-> <<>>,
             error |-> "Query loop detected - returning empty results",
             loop_info |-> [type |-> loop_type,
                            repetitions |-> CountOf(state.operation_counts, state.loop_signature)]]
      [] loop_type = "max_depth_exceeded" ->
            [results |-> <<"[Max depth reached]">>,
             partial |-> TRUE,
             depth |-> state.depth]
      [] loop_type = "circular_dependency" ->
            [results |-> <<>>,
             error |-> "Circular dependency detected",
             chain |-> [i \in 1..Len(LastN(state.operations, 5)) |->
                           <<LastN(state.operations, 5)[i].query_hash>>]]
      [] OTHER ->
            [exception |-> <<"Loop detected: ", loop_type>>]

\* a mutant of HandleLoopBreak: the chain holds the whole lookback of the circular rule
HandleLoopBreak_LongChain(query, loop_type, state) ==
    CASE loop_type = "exact_repetition" ->
            [results |-> <<>>,
             error |-> "Query loop detected - returning empty results",
             loop_info |-> [type |-> loop_type,
                            repetitions |-> CountOf(state.operation_counts, state.loop_signature)]]
      [] loop_type = "max_depth_exceeded" ->
            [results |-> <<"[Max depth reached]">>,
             partial |-> TRUE,
             depth |-> state.depth]
      [] loop_type = "circular_dependency" ->
            [results |-> <<>>,
             error |-> "Circular dependency detected",
             chain |-> [i \in 1..Len(LastN(state.operations, CircularLookback)) |->
                           <<LastN(state.operations, CircularLookback)[i].query_hash>>]]
      [] OTHER ->
            [results |-> <<>>,
             error |-> <<"Loop detected: ", loop_type>>,
             trace_id |-> state.trace_id]

\* MemoryLoopDetector._handle_loop_break
HandleLoopBreak(query, loop_type, state) ==
    CASE loop_type = "exact_repetition" ->
            [results |-> <<>>,
             error |-> "Query loop detected - returning empty results",
             loop_info |-> [type |-> loop_type,
                            repetitions |-> CountOf(state.operation_counts, state.loop_signature)]]
      [] loop_type = "max_depth_exceeded" ->
            [results |-> <<"[Max depth reached]">>,
             partial |-> TRUE,
             depth |-> state.depth]
      [] loop_type = "circular_dependency" ->
            [results |-> <<>>,
             error |-> "Circular dependency detected",
             chain |-> [i \in 1..Len(LastN(state.operations, 5)) |->
                           <<LastN(state.operations, 5)[i].query_hash>>]]
      [] OTHER ->
            [results |-> <<>>,
             error |-> <<"Loop detected: ", loop_type>>,
             trace_id |-> state.trace_id]

\* a mutant of CleanupOldStates: a trace expires when its oldest entry is as old as
\* the window
CleanupOldStates_AtWindow(S) ==
    LET expired_traces ==
            {trace_id \in DOMAIN S :
                /\ S[trace_id].operations # <<>>
                /\ now - S[trace_id].operations[1].timestamp >= time_window}
    IN  [trace_id \in DOMAIN S \ expired_traces |-> S[trace_id]]

\* MemoryLoopDetector._cleanup_old_states
CleanupOldStates(S) ==
    LET expired_traces ==
            {trace_id \in DOMAIN S :
                /\ S[trace_id].operations # <<>>
                /\ now - S[trace_id].operations[1].timestamp > time_window}
    IN  [trace_id \in DOMAIN S \ expired_traces |-> S[trace_id]]

----------------------------------------------------------------------------
(* The entry point                                                         *)

Pending == [pending |-> TRUE]     \* no value returned yet

RecursionLimit == 3               \* if depth < 3
ContinueLimit == 2                \* "continue": depth < 2

\* a mutant of GetOrCreate: a new state replaces the store
GetOrCreate_Replace(S, trace_id) ==
    IF trace_id \in DOMAIN S
    THEN S
    ELSE [x \in {trace_id} |-> NewState(trace_id)]

\* self.states[trace_id] = LoopDetectionState(trace_id) when the id is absent
GetOrCreate(S, trace_id) ==
    IF trace_id \in DOMAIN S
    THEN S
    ELSE [x \in DOMAIN S \cup {trace_id} |->
             IF x = trace_id THEN NewState(trace_id) ELSE S[x]]

\* a mutant of Classify: the depth of the call replaces the depth of the state
Classify_DepthOverwritten(S, trace_id, query, operation, depth) ==
    LET S1 == GetOrCreate(S, trace_id)
        st1 == [S1[trace_id] EXCEPT !.depth = depth]
        sig == from_query(operation, query, now)
        sig_key == SigKey(sig)
        loop_type == DetectLoop(st1, sig_key)
        st3 == IF loop_type # "none"
               THEN [st1 EXCEPT !.loop_detected = TRUE, !.loop_signature = sig_key]
               ELSE [st1 EXCEPT !.operations = Append(@, sig),
                                !.operation_counts = Increment(@, sig_key)]
    IN  [states |-> [S1 EXCEPT ![trace_id] = st3],
         loop_type |-> loop_type,
         sig_key |-> sig_key,
         proceeds |-> loop_type = "none",
         result |-> IF loop_type # "none"
                    THEN HandleLoopBreak(query, loop_type, st3)
                    ELSE Pending]

\* a mutant of Classify: the break result is not returned and the call proceeds
Classify_NoEarlyReturn(S, trace_id, query, operation, depth) ==
    LET S1 == GetOrCreate(S, trace_id)
        st1 == [S1[trace_id] EXCEPT !.depth = Max(@, depth)]
        sig == from_query(operation, query, now)
        sig_key == SigKey(sig)
        loop_type == DetectLoop(st1, sig_key)
        st3 == IF loop_type # "none"
               THEN [st1 EXCEPT !.loop_detected = TRUE, !.loop_signature = sig_key]
               ELSE [st1 EXCEPT !.operations = Append(@, sig),
                                !.operation_counts = Increment(@, sig_key)]
    IN  [states |-> [S1 EXCEPT ![trace_id] = st3],
         loop_type |-> loop_type,
         sig_key |-> sig_key,
         proceeds |-> TRUE,
         result |-> IF loop_type # "none"
                    THEN HandleLoopBreak(query, loop_type, st3)
                    ELSE Pending]

\* a mutant of Classify: a call classified as a loop is recorded like a passed one
Classify_RecordsLoop(S, trace_id, query, operation, depth) ==
    LET S1 == GetOrCreate(S, trace_id)
        st1 == [S1[trace_id] EXCEPT !.depth = Max(@, depth)]
        sig == from_query(operation, query, now)
        sig_key == SigKey(sig)
        loop_type == DetectLoop(st1, sig_key)
        st3 == IF loop_type # "none"
               THEN [st1 EXCEPT !.loop_detected = TRUE, !.loop_signature = sig_key,
                                !.operations = Append(@, sig),
                                !.operation_counts = Increment(@, sig_key)]
               ELSE [st1 EXCEPT !.operations = Append(@, sig),
                                !.operation_counts = Increment(@, sig_key)]
    IN  [states |-> [S1 EXCEPT ![trace_id] = st3],
         loop_type |-> loop_type,
         sig_key |-> sig_key,
         proceeds |-> loop_type = "none",
         result |-> IF loop_type # "none"
                    THEN HandleLoopBreak(query, loop_type, st3)
                    ELSE Pending]

\* a mutant of Classify: the depth is stored only when the call is passed
Classify_DepthOnPass(S, trace_id, query, operation, depth) ==
    LET S1 == GetOrCreate(S, trace_id)
        st1 == [S1[trace_id] EXCEPT !.depth = Max(@, depth)]
        sig == from_query(operation, query, now)
        sig_key == SigKey(sig)
        loop_type == DetectLoop(st1, sig_key)
        st3 == IF loop_type # "none"
               THEN [S1[trace_id] EXCEPT !.loop_detected = TRUE, !.loop_signature = sig_key]
               ELSE [st1 EXCEPT !.operations = Append(@, sig),
                                !.operation_counts = Increment(@, sig_key)]
    IN  [states |-> [S1 EXCEPT ![trace_id] = st3],
         loop_type |-> loop_type,
         sig_key |-> sig_key,
         proceeds |-> loop_type = "none",
         result |-> IF loop_type # "none"
                    THEN HandleLoopBreak(query, loop_type, st3)
                    ELSE Pending]

\* a mutant of Classify: a passed call clears the loop flag
Classify_PassClearsFlag(S, trace_id, query, operation, depth) ==
    LET S1 == GetOrCreate(S, trace_id)
        st1 == [S1[trace_id] EXCEPT !.depth = Max(@, depth)]
        sig == from_query(operation, query, now)
        sig_key == SigKey(sig)
        loop_type == DetectLoop(st1, sig_key)
        st3 == IF loop_type # "none"
               THEN [st1 EXCEPT !.loop_detected = TRUE, !.loop_signature = sig_key]
               ELSE [st1 EXCEPT !.operations = Append(@, sig),
                                !.operation_counts = Increment(@, sig_key),
                                !.loop_detected = FALSE]
    IN  [states |-> [S1 EXCEPT ![trace_id] = st3],
         loop_type |-> loop_type,
         sig_key |-> sig_key,
         proceeds |-> loop_type = "none",
         result |-> IF loop_type # "none"
                    THEN HandleLoopBreak(query, loop_type, st3)
                    ELSE Pending]

\* a mutant of Classify: a passed call appends its signature and leaves the count
Classify_AppendOnly(S, trace_id, query, operation, depth) ==
    LET S1 == GetOrCreate(S, trace_id)
        st1 == [S1[trace_id] EXCEPT !.depth = Max(@, depth)]
        sig == from_query(operation, query, now)
        sig_key == SigKey(sig)
        loop_type == DetectLoop(st1, sig_key)
        st3 == IF loop_type # "none"
               THEN [st1 EXCEPT !.loop_detected = TRUE, !.loop_signature = sig_key]
               ELSE [st1 EXCEPT !.operations = Append(@, sig)]
    IN  [states |-> [S1 EXCEPT ![trace_id] = st3],
         loop_type |-> loop_type,
         sig_key |-> sig_key,
         proceeds |-> loop_type = "none",
         result |-> IF loop_type # "none"
                    THEN HandleLoopBreak(query, loop_type, st3)
                    ELSE Pending]

\* a mutant of Classify: a loop sets the flag and leaves the loop signature
Classify_FlagOnly(S, trace_id, query, operation, depth) ==
    LET S1 == GetOrCreate(S, trace_id)
        st1 == [S1[trace_id] EXCEPT !.depth = Max(@, depth)]
        sig == from_query(operation, query, now)
        sig_key == SigKey(sig)
        loop_type == DetectLoop(st1, sig_key)
        st3 == IF loop_type # "none"
               THEN [st1 EXCEPT !.loop_detected = TRUE]
               ELSE [st1 EXCEPT !.operations = Append(@, sig),
                                !.operation_counts = Increment(@, sig_key)]
    IN  [states |-> [S1 EXCEPT ![trace_id] = st3],
         loop_type |-> loop_type,
         sig_key |-> sig_key,
         proceeds |-> loop_type = "none",
         result |-> IF loop_type # "none"
                    THEN [results |-> <<>>, error |-> loop_type]
                    ELSE Pending]

\* a mutant of Classify: breaking a depth or circular loop resets the depth and the
\* history of the trace
Classify_LoopResets(S, trace_id, query, operation, depth) ==
    LET S1 == GetOrCreate(S, trace_id)
        st1 == [S1[trace_id] EXCEPT !.depth = Max(@, depth)]
        sig == from_query(operation, query, now)
        sig_key == SigKey(sig)
        loop_type == DetectLoop(st1, sig_key)
        st2 == IF loop_type \in {"max_depth_exceeded", "circular_dependency"}
               THEN [st1 EXCEPT !.depth = 0, !.operations = <<>>,
                                !.operation_counts = EmptyCounts]
               ELSE st1
        st3 == IF loop_type # "none"
               THEN [st2 EXCEPT !.loop_detected = TRUE, !.loop_signature = sig_key]
               ELSE [st1 EXCEPT !.operations = Append(@, sig),
                                !.operation_counts = Increment(@, sig_key)]
    IN  [states |-> [S1 EXCEPT ![trace_id] = st3],
         loop_type |-> loop_type,
         sig_key |-> sig_key,
         proceeds |-> loop_type = "none",
         result |-> IF loop_type # "none"
                    THEN HandleLoopBreak(query, loop_type, st3)
                    ELSE Pending]

\* the calls in progress on trace_id with the key sig_key
InProgress(trace_id, sig_key) ==
    {f \in {<<task, i>> : task \in DOMAIN stacks, i \in 1..3} :
        /\ f[2] <= Len(stacks[f[1]])
        /\ stacks[f[1]][f[2]].trace_id = trace_id
        /\ SigKey(from_query(stacks[f[1]][f[2]].operation,
                             stacks[f[1]][f[2]].query, 0)) = sig_key}

\* a mutant of Classify: the classification sees the counts without the records of
\* the calls in progress, as if it ran before their append and increment
Classify_StaleCounts(S, trace_id, query, operation, depth) ==
    LET S1 == GetOrCreate(S, trace_id)
        st1 == [S1[trace_id] EXCEPT !.depth = Max(@, depth)]
        sig == from_query(operation, query, now)
        sig_key == SigKey(sig)
        stale == [st1 EXCEPT !.operation_counts =
                     [k \in DOMAIN @ |->
                         Max(0, @[k] - Cardinality(InProgress(trace_id, k)))]]
        loop_type == DetectLoop(stale, sig_key)
        st3 == IF loop_type # "none"
               THEN [st1 EXCEPT !.loop_detected = TRUE, !.loop_signature = sig_key]
               ELSE [st1 EXCEPT !.operations = Append(@, sig),
                                !.operation_counts = Increment(@, sig_key)]
    IN  [states |-> [S1 EXCEPT ![trace_id] = st3],
         loop_type |-> loop_type,
         sig_key |-> sig_key,
         proceeds |-> loop_type = "none",
         result |-> IF loop_type # "none"
                    THEN HandleLoopBreak(query, loop_type, st3)
                    ELSE Pending]

\* memory_search_with_loop_detection up to its first await: the state lookup, the
\* depth update, the classification, and then either the break result or the
\* recording of the operation
Classify(S, trace_id, query, operation, depth) ==
    LET S1 == GetOrCreate(S, trace_id)
        st1 == [S1[trace_id] EXCEPT !.depth = Max(@, depth)]
        sig == from_query(operation, query, now)
        sig_key == SigKey(sig)
        loop_type == DetectLoop(st1, sig_key)
        st3 == IF loop_type # "none"
               THEN [st1 EXCEPT !.loop_detected = TRUE, !.loop_signature = sig_key]
               ELSE [st1 EXCEPT !.operations = Append(@, sig),
                                !.operation_counts = Increment(@, sig_key)]
    IN  [states |-> [S1 EXCEPT ![trace_id] = st3],
         loop_type |-> loop_type,
         sig_key |-> sig_key,
         proceeds |-> loop_type = "none",
         result |-> IF loop_type # "none"
                    THEN HandleLoopBreak(query, loop_type, st3)
                    ELSE Pending]

\* _perform_memory_operation recurses: a search whose query holds "recursive"
Recurses(frame) ==
    /\ frame.operation = <<"search">>
    /\ ContainsRecursive(frame.query)
    /\ frame.depth < RecursionLimit

\* what _perform_memory_operation returns when it does not recurse
LeafResult(frame) ==
    IF frame.operation = <<"search">>
    THEN [results |-> << <<"result_for_">> \o frame.query >>]
    ELSE IF frame.operation = <<"expand">>
    THEN [expanded |-> Append(frame.query, "_expanded"),
          continue |-> frame.depth < ContinueLimit]
    ELSE [data |-> frame.query]

\* a mutant of Return: the frames return without cleaning the old states
Return_NoCleanup(stack, S, result) ==
    [states |-> S,
     result |-> IF Len(stack) <= 1
                THEN result
                ELSE [results |-> <<"main_result">>, sub_results |-> result]]

\* The top frame of stack has its result: it cleans the old states and returns;
\* the frame below takes the value as sub_results, cleans and returns, and so on.
RECURSIVE Return(_, _, _)
Return(stack, S, result) ==
    IF stack = <<>>
    THEN [states |-> S, result |-> result]
    ELSE Return(SubSeq(stack, 1, Len(stack) - 1),
                CleanupOldStates(S),
                IF Len(stack) = 1
                THEN result
                ELSE [results |-> <<"main_result">>, sub_results |-> result])

LogEntry(task, trace_id, operation, query, depth, c, nested) ==
    [task |-> task, trace_id |-> trace_id, operation |-> operation, query |-> query,
     depth |-> depth, time |-> now, sig_key |-> c.sig_key, loop_type |-> c.loop_type,
     result |-> c.result, nested |-> nested]

Record(entry) == IF env.keepLog THEN Append(log, entry) ELSE <<entry>>

\* the bounds of the exploration: the number of calls when the log is kept, and the
\* length of a history
MayCall(S, trace_id, c) ==
    /\ IF env.keepLog THEN Len(log) < env.maxCalls ELSE TRUE
    /\ IF c.proceeds /\ trace_id \in DOMAIN S
       THEN Len(S[trace_id].operations) < env.maxHist
       ELSE TRUE

\* a mutant of Call: the key of a call classified as a loop is added to the registry
Call_Promotes(task, trace_id, operation, query, depth) ==
    LET c == Classify(states, trace_id, query, operation, depth)
    IN  /\ stacks[task] = <<>>
        /\ MayCall(states, trace_id, c)
        /\ states' = c.states
        /\ stacks' = [stacks EXCEPT ![task] =
                         IF c.proceeds
                         THEN <<[trace_id |-> trace_id, query |-> query,
                                 operation |-> operation, depth |-> depth]>>
                         ELSE <<>>]
        /\ ret' = [ret EXCEPT ![task] = c.result]
        /\ log' = Record(LogEntry(task, trace_id, operation, query, depth, c, FALSE))
        /\ flip' = 1 - flip
        /\ global_patterns' = IF c.proceeds
                              THEN global_patterns
                              ELSE global_patterns \cup {c.sig_key}
        /\ UNCHANGED <<now, max_depth, max_repeats, time_window, env>>

\* A caller awaits memory_search_with_loop_detection(query, operation, depth)
\* inside the trace trace_id; the coroutine runs to its first await or to its return.
Call(task, trace_id, operation, query, depth) ==
    LET c == Classify(states, trace_id, query, operation, depth)
    IN  /\ stacks[task] = <<>>
        /\ MayCall(states, trace_id, c)
        /\ states' = c.states
        /\ stacks' = [stacks EXCEPT ![task] =
                         IF c.proceeds
                         THEN <<[trace_id |-> trace_id, query |-> query,
                                 operation |-> operation, depth |-> depth]>>
                         ELSE <<>>]
        /\ ret' = [ret EXCEPT ![task] = c.result]
        /\ log' = Record(LogEntry(task, trace_id, operation, query, depth, c, FALSE))
        /\ flip' = 1 - flip
        /\ UNCHANGED <<now, max_depth, max_repeats, time_window, global_patterns, env>>

\* asyncio.sleep(0.1) of the innermost call of a task is over and
\* _perform_memory_operation awaits the nested search at depth + 1.
WakeRecurse(task) ==
    /\ stacks[task] # <<>>
    /\ LET frame == stacks[task][Len(stacks[task])]
           query == Append(frame.query, "_expanded")
           c == Classify(states, frame.trace_id, query, <<"search">>, frame.depth + 1)
           r == Return(stacks[task], c.states,
                       [results |-> <<"main_result">>, sub_results |-> c.result])
       IN  /\ Recurses(frame)
           /\ MayCall(states, frame.trace_id, c)
           /\ IF c.proceeds
              THEN /\ states' = c.states
                   /\ stacks' = [stacks EXCEPT ![task] =
                                    Append(@, [trace_id |-> frame.trace_id, query |-> query,
                                               operation |-> <<"search">>,
                                               depth |-> frame.depth + 1])]
                   /\ ret' = ret
              ELSE /\ states' = r.states
                   /\ stacks' = [stacks EXCEPT ![task] = <<>>]
                   /\ ret' = [ret EXCEPT ![task] = r.result]
           /\ log' = Record(LogEntry(task, frame.trace_id, <<"search">>, query,
                                     frame.depth + 1, c, TRUE))
           /\ flip' = 1 - flip
    /\ UNCHANGED <<now, max_depth, max_repeats, time_window, global_patterns, env>>

\* asyncio.sleep(0.1) of the innermost call of a task is over and
\* _perform_memory_operation returns without a nested search.
WakeReturn(task) ==
    /\ stacks[task] # <<>>
    /\ LET frame == stacks[task][Len(stacks[task])]
           r == Return(stacks[task], states, LeafResult(frame))
       IN  /\ ~Recurses(frame)
           /\ states' = r.states
           /\ stacks' = [stacks EXCEPT ![task] = <<>>]
           /\ ret' = [ret EXCEPT ![task] = r.result]
    /\ UNCHANGED <<now, max_depth, max_repeats, time_window, global_patterns, log, flip, env>>

\* the wall clock advances
Tick ==
    /\ now + env.step <= env.maxTime
    /\ now' = now + env.step
    /\ UNCHANGED <<max_depth, max_repeats, time_window, states, global_patterns,
                   stacks, ret, log, flip, env>>

\* max((s.depth for s in self.states.values()), default=0)
MaxDepthSeen(S) ==
    IF DOMAIN S = {}
    THEN 0
    ELSE CHOOSE d \in {S[t].depth : t \in DOMAIN S} : \A t \in DOMAIN S : S[t].depth <= d

\* MemoryLoopDetector.get_loop_statistics; loop_types maps the text before the first
\* ":" of a recorded loop signature to the number of traces that recorded it
GetLoopStatistics(S) ==
    LET flagged == {t \in DOMAIN S : S[t].loop_signature # NoSignature}
        op_type(t) == SplitColon(S[t].loop_signature)[1]
    IN  [total_loops_detected |-> Cardinality({t \in DOMAIN S : S[t].loop_detected}),
         active_traces |-> Cardinality(DOMAIN S),
         loop_types |-> [o \in {op_type(t) : t \in flagged} |->
                            Cardinality({t \in flagged : op_type(t) = o})],
         max_depth_seen |-> MaxDepthSeen(S)]

\* A caller that is not inside a call takes detector.get_loop_statistics()
Snapshot(task) ==
    /\ stacks[task] = <<>>
    /\ ret' = [ret EXCEPT ![task] = GetLoopStatistics(states)]
    /\ UNCHANGED <<now, max_depth, max_repeats, time_window, states, global_patterns,
                   stacks, log, flip, env>>

----------------------------------------------------------------------------
(* Specifications                                                          *)

\* the state in which no call was made yet
Idle(tasks) ==
    /\ now = 0
    /\ stacks = [task \in tasks |-> <<>>]
    /\ ret = [task \in tasks |-> Pending]
    /\ log = <<>>
    /\ flip = 0

\* MemoryLoopDetector.__init__
Construct(maxDepth, maxRepeats, timeWindowSeconds) ==
    /\ max_depth = maxDepth
    /\ max_repeats = maxRepeats
    /\ time_window = timeWindowSeconds
    /\ states = [x \in {} |-> NewState(x)]
    /\ global_patterns = {}

\* the same, after which the caller adds patterns to detector.global_patterns
ConstructSeeded(maxDepth, maxRepeats, timeWindowSeconds, patterns) ==
    /\ max_depth = maxDepth
    /\ max_repeats = maxRepeats
    /\ time_window = timeWindowSeconds
    /\ states = [x \in {} |-> NewState(x)]
    /\ global_patterns = patterns

CallAny ==
    \E task \in env.tasks, trace_id \in env.traces, operation \in env.operations,
       query \in env.queries, depth \in env.depths :
        Call(task, trace_id, operation, query, depth)

(* Spec: two traces, plain and recursive searches, a short retention window *)

MaxTime == 2           \* the clock stops here
MaxHist == 2           \* longest history explored
MaxDepthArg == 2       \* largest depth a caller supplies

DepthLimits == {2}     \* max_depth given to the constructor
RepeatLimits == {1, 2} \* max_repeats given to the constructor
TimeWindows == {1}     \* time_window_seconds given to the constructor

Callers ==
    [tasks |-> {"main"},
     traces |-> {"t1", "t2"},
     operations |-> {<<"search">>},
     queries |-> {<<"query_a">>, <<"recursive query">>},
     depths |-> {0, MaxDepthArg},
     step |-> 1, maxTime |-> MaxTime,
     keepLog |-> FALSE, maxCalls |-> 0, maxHist |-> MaxHist]

Init ==
    /\ \E d \in DepthLimits, m \in RepeatLimits, w \in TimeWindows : Construct(d, m, w)
    /\ env = Callers
    /\ Idle(env.tasks)

Next ==
    \/ CallAny
    \/ \E task \in env.tasks : WakeRecurse(task)
    \/ \E task \in env.tasks : WakeReturn(task)
    \/ Tick

Spec == Init /\ [][Next]_vars

(* SpecSeeded: the same callers; the registry holds patterns from the start *)

SeedPatterns == {{}, {<<"search", ":", "86532947">>}}

InitSeeded ==
    /\ \E d \in DepthLimits, m \in RepeatLimits, w \in TimeWindows, g \in SeedPatterns :
           ConstructSeeded(d, m, w, g)
    /\ env = Callers
    /\ Idle(env.tasks)

SpecSeeded == InitSeeded /\ [][Next]_vars

(* SpecRepeat: one caller submits one (operation, query) pair again and    *)
(* again to one trace; every call is logged                                *)

RepeatMaxM == 4        \* largest max_repeats
RepeatMaxCalls == 5    \* calls submitted
RepeatMaxTime == 5     \* the clock stops here
DefaultTimeWindow == 60     \* time_window_seconds: int = 60
ScenarioMaxDepth == 5       \* MemoryLoopDetector(max_depth=5, max_repeats=3)

RepeatPairs ==
    {<< <<"search">>, <<"find similar documents">> >>,
     << <<"expand">>, <<" ", "Docker Error", " ">> >>}

InitRepeat ==
    /\ \E m \in 1..RepeatMaxM : Construct(ScenarioMaxDepth, m, DefaultTimeWindow)
    /\ \E pair \in RepeatPairs :
          env = [tasks |-> {"main"},
                 traces |-> {"t1"},
                 operations |-> {pair[1]},
                 queries |-> {pair[2]},
                 depths |-> {0, ScenarioMaxDepth},
                 step |-> 1, maxTime |-> RepeatMaxTime,
                 keepLog |-> TRUE, maxCalls |-> RepeatMaxCalls, maxHist |-> RepeatMaxCalls]
    /\ Idle(env.tasks)

NextFlat ==
    \/ CallAny
    \/ \E task \in env.tasks : WakeReturn(task)
    \/ Tick

SpecRepeat == InitRepeat /\ [][NextFlat]_vars

(* SpecCircular: one caller submits the searches query_a, query_b, query_c *)
(* in any order to one trace; every call is logged                         *)

CircularMaxCalls == 7  \* calls submitted
CircularMaxTime == 1   \* the clock stops here
CircularRepeatLimits == {3, 5}

InitCircular ==
    /\ \E m \in CircularRepeatLimits : Construct(ScenarioMaxDepth, m, DefaultTimeWindow)
    /\ env = [tasks |-> {"main"},
              traces |-> {"t1"},
              operations |-> {<<"search">>},
              queries |-> {<<"query_a">>, <<"query_b">>, <<"query_c">>},
              depths |-> {0},
              step |-> 1, maxTime |-> CircularMaxTime,
              keepLog |-> TRUE, maxCalls |-> CircularMaxCalls, maxHist |-> CircularMaxCalls]
    /\ Idle(env.tasks)

NextCircular ==
    \/ CallAny
    \/ \E task \in env.tasks : WakeReturn(task)
    \/ Tick

SpecCircular == InitCircular /\ [][NextCircular]_vars

(* SpecRules: one trace, three searches, depths below and at the limit, a  *)
(* registry that may hold a pattern: every rule of the classifier fires    *)

RulesMaxHist == 6      \* longest history explored
RulesMaxTime == 5      \* the clock stops here
RulesRepeatLimits == {4}

InitRules ==
    /\ \E m \in RulesRepeatLimits, g \in SeedPatterns :
           ConstructSeeded(ScenarioMaxDepth, m, DefaultTimeWindow, g)
    /\ env = [tasks |-> {"main"},
              traces |-> {"t1"},
              operations |-> {<<"search">>},
              queries |-> {<<"query_a">>, <<"query_b">>, <<"query_c">>},
              depths |-> {0, ScenarioMaxDepth},
              step |-> RapidWindowSeconds, maxTime |-> RulesMaxTime,
              keepLog |-> FALSE, maxCalls |-> 0, maxHist |-> RulesMaxHist]
    /\ Idle(env.tasks)

NextRules ==
    \/ CallAny
    \/ \E task \in env.tasks : WakeReturn(task)
    \/ Tick

SpecRules == InitRules /\ [][NextRules]_vars

(* SpecDepth: one caller submits two searches at depths below and at the   *)
(* limit to one trace; every call is logged                                *)

DepthMaxCalls == 5     \* calls submitted
DepthMaxTime == 1      \* the clock stops here
DepthDepthLimit == 2   \* max_depth given to the constructor

InitDepth ==
    /\ \E m \in RepeatLimits : Construct(DepthDepthLimit, m, DefaultTimeWindow)
    /\ env = [tasks |-> {"main"},
              traces |-> {"t1"},
              operations |-> {<<"search">>},
              queries |-> {<<"query_a">>, <<"query_b">>},
              depths |-> {0, DepthDepthLimit},
              step |-> 1, maxTime |-> DepthMaxTime,
              keepLog |-> TRUE, maxCalls |-> DepthMaxCalls, maxHist |-> DepthMaxCalls]
    /\ Idle(env.tasks)

NextDepth ==
    \/ CallAny
    \/ \E task \in env.tasks : WakeReturn(task)
    \/ Tick

SpecDepth == InitDepth /\ [][NextDepth]_vars

(* SpecCase: one caller submits spellings of one query, and another query, *)
(* as searches and expansions to one trace; every call is logged           *)

CaseMaxCalls == 4      \* calls submitted
CaseMaxTime == 1       \* the clock stops here
CaseRepeatLimits == {2, 5}

InitCase ==
    /\ \E m \in CaseRepeatLimits : Construct(ScenarioMaxDepth, m, DefaultTimeWindow)
    /\ env = [tasks |-> {"main"},
              traces |-> {"t1"},
              operations |-> {<<"search">>, <<"expand">>},
              queries |-> {<<"Docker Error">>, <<" ", "docker error", "\t">>, <<"query_a">>},
              depths |-> {0},
              step |-> 1, maxTime |-> CaseMaxTime,
              keepLog |-> TRUE, maxCalls |-> CaseMaxCalls, maxHist |-> CaseMaxCalls]
    /\ Idle(env.tasks)

NextCase ==
    \/ CallAny
    \/ \E task \in env.tasks : WakeReturn(task)
    \/ Tick

SpecCase == InitCase /\ [][NextCase]_vars

(* SpecLive: two traces, two searches; the clock keeps advancing up to its  *)
(* bound, calls keep being submitted and suspended calls keep being resumed *)

LiveMaxTime == 2       \* the clock stops here
LiveMaxHist == 2       \* longest history explored (max_repeats = 1, two queries)
LiveRepeatLimit == 1   \* max_repeats given to the constructor

InitLive ==
    /\ \E d \in DepthLimits, w \in TimeWindows : Construct(d, LiveRepeatLimit, w)
    /\ env = [tasks |-> {"main"},
              traces |-> {"t1", "t2"},
              operations |-> {<<"search">>},
              queries |-> {<<"query_a">>, <<"query_b">>},
              depths |-> {0, MaxDepthArg},
              step |-> 1, maxTime |-> LiveMaxTime,
              keepLog |-> FALSE, maxCalls |-> 0, maxHist |-> LiveMaxHist]
    /\ Idle(env.tasks)

NextLive ==
    \/ CallAny
    \/ \E task \in env.tasks : WakeReturn(task)
    \/ Tick

SpecLive ==
    /\ InitLive
    /\ [][NextLive]_vars
    /\ WF_vars(Tick)
    /\ WF_vars(CallAny)
    /\ WF_vars(\E task \in env.tasks : WakeReturn(task))

(* SpecRapid: one caller submits two queries under two operation names,     *)
(* one of which holds a ":", to one trace, at most once a second           *)

RapidMaxHist == 4      \* longest history explored
RapidMaxTime == 5      \* the clock stops here
RapidRepeatLimit == 5  \* max_repeats given to the constructor

InitRapid ==
    /\ Construct(ScenarioMaxDepth, RapidRepeatLimit, DefaultTimeWindow)
    /\ env = [tasks |-> {"main"},
              traces |-> {"t1"},
              operations |-> {<<"search">>, <<"mem", ":", "search">>},
              queries |-> {<<"query_a">>, <<"query_b">>},
              depths |-> {0},
              step |-> 1, maxTime |-> RapidMaxTime,
              keepLog |-> FALSE, maxCalls |-> 0, maxHist |-> RapidMaxHist]
    /\ Idle(env.tasks)

NextRapid ==
    \/ CallAny
    \/ \E task \in env.tasks : WakeReturn(task)
    \/ Tick

SpecRapid == InitRapid /\ [][NextRapid]_vars

(* SpecConc: two concurrent tasks call the detector, each inside one of two *)
(* traces, with plain and recursive searches; their calls interleave at the *)
(* awaits                                                                   *)

ConcMaxTime == 2       \* the clock stops here
ConcMaxHist == 2       \* longest history explored

InitConc ==
    /\ \E d \in DepthLimits, m \in RepeatLimits, w \in TimeWindows : Construct(d, m, w)
    /\ env = [tasks |-> {"x", "y"},
              traces |-> {"t1", "t2"},
              operations |-> {<<"search">>},
              queries |-> {<<"query_a">>, <<"recursive query">>},
              depths |-> {0},
              step |-> 1, maxTime |-> ConcMaxTime,
              keepLog |-> FALSE, maxCalls |-> 0, maxHist |-> ConcMaxHist]
    /\ Idle(env.tasks)

NextConc ==
    \/ CallAny
    \/ \E task \in env.tasks : WakeRecurse(task)
    \/ \E task \in env.tasks : WakeReturn(task)
    \/ Tick

SpecConc == InitConc /\ [][NextConc]_vars

(* SpecStats: the callers of Spec, who also take statistics snapshots       *)

NextStats ==
    \/ CallAny
    \/ \E task \in env.tasks : WakeRecurse(task)
    \/ \E task \in env.tasks : WakeReturn(task)
    \/ Tick
    \/ \E task \in env.tasks : Snapshot(task)

SpecStats == Init /\ [][NextStats]_vars

----------------------------------------------------------------------------
(* Properties                                                              *)

Last == log[Len(log)]

\* this step is a call of the entry point
CallStep == flip' # flip

Passed(k) == log[k].loop_type = "none"

\* the calls 1..k were all submitted with a depth below max_depth
DepthsBelow(k) == \A j \in 1..k : log[j].depth < max_depth

\* the classifications of the calls 1..k, in order
Classes(k) == [j \in 1..k |-> log[j].loop_type]

(* C1 as stated: when one (operation, query) pair is submitted max_repeats  *)
(* times to one trace at depths below max_depth, the max_repeats-th call is *)
(* classified exact_repetition and no earlier call is.  (SpecRepeat)        *)
C1_Original ==
    (Len(log) >= max_repeats /\ DepthsBelow(max_repeats))
        => /\ log[max_repeats].loop_type = "exact_repetition"
           /\ \A k \in 1..(max_repeats - 1) : log[k].loop_type # "exact_repetition"

(* C1 amended: none of the calls 1..max_repeats is classified               *)
(* exact_repetition; the call after max_repeats passed calls is classified  *)
(* exact_repetition; and for max_repeats <= 3 the first max_repeats calls   *)
(* at depths below max_depth are all passed.  (SpecRepeat)                  *)
C1_ExactOnCallAfterMaxRepeats ==
    /\ \A k \in 1..Len(log) : k <= max_repeats => log[k].loop_type # "exact_repetition"
    /\ (Len(log) > max_repeats /\ \A k \in 1..max_repeats : Passed(k))
           => log[max_repeats + 1].loop_type = "exact_repetition"
    /\ (max_repeats <= RapidThreshold /\ Len(log) >= max_repeats /\ DepthsBelow(max_repeats))
           => \A k \in 1..max_repeats : Passed(k)

\* max_repeats = 4 calls were passed, the last one more than 5 seconds after the
\* first, and the fifth call is classified exact_repetition
C1_Witness ==
    /\ max_repeats > RapidThreshold
    /\ Len(log) > max_repeats
    /\ \A k \in 1..max_repeats : Passed(k)
    /\ log[max_repeats + 1].loop_type = "exact_repetition"
    /\ log[max_repeats + 1].depth < max_depth

\* the five calls of the scenario: search "find similar documents" at depth 0 on a
\* detector built with max_depth=5, max_repeats=3
C2_Scenario ==
    /\ max_depth = 5
    /\ max_repeats = 3
    /\ Len(log) >= 5
    /\ \A k \in 1..5 : /\ log[k].operation = <<"search">>
                       /\ log[k].query = <<"find similar documents">>
                       /\ log[k].depth = 0
                       /\ log[k].trace_id = log[1].trace_id

(* C2 as stated: the five calls of the scenario are classified no loop, no  *)
(* loop, exact_repetition, exact_repetition, exact_repetition. (SpecRepeat) *)
C2_Original ==
    C2_Scenario =>
        Classes(5) = <<"none", "none", "exact_repetition", "exact_repetition",
                       "exact_repetition">>

(* C2 amended: the five calls of the scenario are classified no loop, no    *)
(* loop, no loop, exact_repetition, exact_repetition: the loop fires on the *)
(* 4th call.  (SpecRepeat)                                                  *)
C2_LoopFiresOnFourthCall ==
    C2_Scenario =>
        Classes(5) = <<"none", "none", "none", "exact_repetition", "exact_repetition">>

\* the five calls of the scenario were made within the same second
C2_Witness == C2_Scenario /\ now = 0 /\ Len(log) = 5

(* C5 as stated: with max_repeats > 3, one of three calls with the same     *)
(* fingerprint made within 5 seconds at depths below max_depth is           *)
(* classified rapid_repetition.  (SpecRepeat)                               *)
C5_Original ==
    (max_repeats > 3 /\ Len(log) >= 3 /\ DepthsBelow(3)
        /\ log[3].time - log[1].time < RapidWindowSeconds)
        => \E k \in 1..3 : log[k].loop_type = "rapid_repetition"

(* C5 amended: with max_repeats > 3 the first three calls with a            *)
(* fingerprint at depths below max_depth are passed; a fourth call is       *)
(* classified rapid_repetition when the first of them is less than 5        *)
(* seconds old, and is passed otherwise.  (SpecRepeat)                      *)
C5_RapidOnFourthCall ==
    (max_repeats > 3 /\ Len(log) >= 3 /\ DepthsBelow(3))
        => /\ \A k \in 1..3 : Passed(k)
           /\ (Len(log) >= 4 /\ log[4].depth < max_depth)
                  => log[4].loop_type =
                         IF log[4].time - log[1].time < RapidWindowSeconds
                         THEN "rapid_repetition"
                         ELSE "none"

\* a fourth call within 5 seconds of the first, classified rapid_repetition with
\* a count of 3 below max_repeats
C5_Witness ==
    /\ max_repeats > 3
    /\ Len(log) >= 4
    /\ DepthsBelow(4)
    /\ log[4].time - log[1].time < RapidWindowSeconds
    /\ log[4].time > log[1].time
    /\ log[4].loop_type = "rapid_repetition"
    /\ CountOf(states[log[4].trace_id].operation_counts, log[4].sig_key) = 3

\* the state a call on trace_id finds: the trace's state, or a new one
Found(trace_id) ==
    IF trace_id \in DOMAIN states THEN states[trace_id] ELSE NewState(trace_id)

\* the conditions of the five rules for the call e, on the state it finds
Rule1(e) ==
    Cardinality({i \in 1..Len(Found(e.trace_id).operations) :
                    SigKey(Found(e.trace_id).operations[i]) = e.sig_key}) >= max_repeats

Rule2(e) == Max(Found(e.trace_id).depth, e.depth) >= max_depth

Rule3(e) ==
    Cardinality({i \in 1..Len(Found(e.trace_id).operations) :
                    /\ now - Found(e.trace_id).operations[i].timestamp < 5
                    /\ Found(e.trace_id).operations[i].query_hash
                           = Md5Hex8(Strip(LowerStr(e.query)))}) >= 3

Rule4(e) == DetectCircularPattern(Found(e.trace_id))

Rule5(e) == e.sig_key \in global_patterns

FirstMatchingRule(e) ==
    CASE Rule1(e) -> "exact_repetition"
      [] ~Rule1(e) /\ Rule2(e) -> "max_depth_exceeded"
      [] ~Rule1(e) /\ ~Rule2(e) /\ Rule3(e) -> "rapid_repetition"
      [] ~Rule1(e) /\ ~Rule2(e) /\ ~Rule3(e) /\ Rule4(e) -> "circular_dependency"
      [] ~Rule1(e) /\ ~Rule2(e) /\ ~Rule3(e) /\ ~Rule4(e) /\ Rule5(e)
             -> "global_pattern_repetition"
      [] OTHER -> "none"

(* C3: every call is classified with the category of the first rule, in the *)
(* order exact_repetition, max_depth_exceeded, rapid_repetition,            *)
(* circular_dependency, global_pattern_repetition, whose condition holds on *)
(* the state the call finds, and as no loop exactly when none holds.        *)
(* (SpecRules)                                                              *)
C3_FirstMatchingRuleWins ==
    [][CallStep => Last'.loop_type = FirstMatchingRule(Last')]_vars

\* a call at the depth limit whose key was counted max_repeats times is classified
\* exact_repetition
C3_Witness ==
    /\ log # <<>>
    /\ Last.loop_type = "exact_repetition"
    /\ Last.depth >= max_depth

\* each of the other categories is given while a later rule's condition holds too
C3_WitnessRapid ==
    /\ log # <<>>
    /\ Last.loop_type = "rapid_repetition"
    /\ DetectCircularPattern(states[Last.trace_id])

C3_WitnessCircular ==
    /\ log # <<>>
    /\ Last.loop_type = "circular_dependency"
    /\ Last.sig_key \in global_patterns

C3_WitnessGlobal == log # <<>> /\ Last.loop_type = "global_pattern_repetition"

C3_WitnessDepth ==
    /\ log # <<>>
    /\ Last.loop_type = "max_depth_exceeded"
    /\ Last.sig_key \in global_patterns

\* the number of calls before call k that were passed with the key of call k
PassedBefore(k) ==
    Cardinality({j \in 1..(k - 1) : log[j].sig_key = log[k].sig_key /\ Passed(j)})

(* C4 as stated: once a call is classified max_depth_exceeded at supplied   *)
(* depth D, every later call on the trace with supplied depth >= D is       *)
(* classified max_depth_exceeded, and no call with a depth below max_depth  *)
(* is classified max_depth_exceeded.  (SpecDepth: the state is not evicted) *)
C4_Original ==
    /\ \A i \in 1..Len(log) : \A j \in (i + 1)..Len(log) :
           (log[i].loop_type = "max_depth_exceeded" /\ log[j].depth >= log[i].depth)
               => log[j].loop_type = "max_depth_exceeded"
    /\ \A k \in 1..Len(log) :
           log[k].loop_type = "max_depth_exceeded" => log[k].depth >= max_depth

(* C4 amended: once a call is classified max_depth_exceeded, every later    *)
(* call on the trace, at any supplied depth, is classified as a loop:       *)
(* exact_repetition when max_repeats calls with its key were passed before, *)
(* max_depth_exceeded otherwise; and a call is classified                   *)
(* max_depth_exceeded only when it or an earlier call on the trace was      *)
(* submitted with a depth of max_depth or more.  (SpecDepth)                *)
C4_DepthLatches ==
    /\ \A i \in 1..Len(log) : \A j \in (i + 1)..Len(log) :
           log[i].loop_type = "max_depth_exceeded"
               => log[j].loop_type = IF PassedBefore(j) >= max_repeats
                                     THEN "exact_repetition"
                                     ELSE "max_depth_exceeded"
    /\ \A k \in 1..Len(log) :
           log[k].loop_type = "max_depth_exceeded"
               => \E j \in 1..k : log[j].depth >= max_depth

\* after a max_depth_exceeded, a call at depth 0 is classified max_depth_exceeded
\* and a call at the depth limit is classified exact_repetition
C4_Witness ==
    \E i, j, k \in 1..Len(log) :
        /\ i < j /\ i < k
        /\ log[i].loop_type = "max_depth_exceeded"
        /\ log[j].loop_type = "max_depth_exceeded" /\ log[j].depth < max_depth
        /\ log[k].loop_type = "exact_repetition" /\ log[k].depth >= log[i].depth

\* the first six calls are A, B, C, A, B, C with pairwise distinct keys
C6_Scenario ==
    /\ Len(log) >= 6
    /\ log[1].sig_key # log[2].sig_key
    /\ log[1].sig_key # log[3].sig_key
    /\ log[2].sig_key # log[3].sig_key
    /\ \A k \in 4..6 : log[k].sig_key = log[k - 3].sig_key

(* C6: the calls A, B, C, A, B, C on a fresh trace, with the count, depth   *)
(* and rapid thresholds not reached, yield a circular_dependency            *)
(* classification no later than the 6th call.  (SpecCircular)               *)
C6_Claim ==
    C6_Scenario => \E k \in 1..6 : log[k].loop_type = "circular_dependency"

\* the trace of the call of this step is not in the store before the call
UnseenTrace == Last'.trace_id \notin DOMAIN states

(* C7 as stated: when a key is in the registry, the first call of a trace   *)
(* not in the store that uses the key is classified                         *)
(* global_pattern_repetition.  (SpecSeeded)                                 *)
C7_Original ==
    [][(CallStep /\ UnseenTrace /\ Last'.sig_key \in global_patterns)
           => Last'.loop_type = "global_pattern_repetition"]_vars

(* C7 amended: with max_repeats >= 1, when a key is in the registry, the    *)
(* first call of a trace not in the store that uses the key is never        *)
(* passed: it is classified global_pattern_repetition when its depth is     *)
(* below max_depth and max_depth_exceeded otherwise.  (SpecSeeded)          *)
C7_RegisteredKeyNeverPassed ==
    [][(CallStep /\ UnseenTrace /\ Last'.sig_key \in global_patterns)
           => Last'.loop_type = IF Last'.depth >= max_depth
                                THEN "max_depth_exceeded"
                                ELSE "global_pattern_repetition"]_vars

\* the only trace of the store has recorded nothing and its call with a registered
\* key was classified global_pattern_repetition
C7_Witness ==
    /\ log # <<>>
    /\ flip = 1
    /\ Last.sig_key \in global_patterns
    /\ Last.loop_type = "global_pattern_repetition"
    /\ DOMAIN states = {Last.trace_id}
    /\ states[Last.trace_id].operations = <<>>
    /\ states[Last.trace_id].loop_signature = Last.sig_key

(* C8: after a call with some key was classified as a loop in one trace, a  *)
(* call with the same key on any other trace is classified as a loop.       *)
(* (Spec)                                                                   *)
C8_Claim ==
    [][(CallStep /\ \E t \in DOMAIN states \ {Last'.trace_id} :
                        /\ states[t].loop_detected
                        /\ states[t].loop_signature = Last'.sig_key)
           => Last'.loop_type # "none"]_vars

\* the trace's oldest recorded event is older than the time window
Expired(trace_id) ==
    /\ trace_id \in DOMAIN states
    /\ states[trace_id].operations # <<>>
    /\ now - states[trace_id].operations[1].timestamp > time_window

(* C9: once more than the time window has elapsed since a trace's oldest    *)
(* recorded event, the next call on that trace operates on fresh state: it  *)
(* is classified as on an empty store and no old event stays in the         *)
(* history.  (Spec)                                                         *)
C9_Claim ==
    [][(CallStep /\ ~Last'.nested /\ Expired(Last'.trace_id))
           => /\ Last'.loop_type =
                     Classify([x \in {} |-> NewState(x)], Last'.trace_id, Last'.query,
                              Last'.operation, Last'.depth).loop_type
              /\ \A i \in 1..Len(states'[Last'.trace_id].operations) :
                     states'[Last'.trace_id].operations[i].timestamp = now]_vars

RECURSIVE Innermost(_)
\* the value at the end of the chain of sub_results
Innermost(r) == IF "sub_results" \in DOMAIN r THEN Innermost(r.sub_results) ELSE r

\* the frame of the call e
FrameOf(e) ==
    [trace_id |-> e.trace_id, query |-> e.query, operation |-> e.operation,
     depth |-> e.depth]

(* C10: a memory operation starts only in a step that classified its call   *)
(* as no loop, and a call classified as a loop starts none: it leaves no     *)
(* frame behind and the break-policy result is what the caller gets.        *)
(* (Spec)                                                                   *)
C10_ClassifiedBeforeWork ==
    [][\A task \in DOMAIN stacks :
          /\ Len(stacks'[task]) > Len(stacks[task])
                 => /\ CallStep
                    /\ Last'.task = task
                    /\ Last'.loop_type = "none"
                    /\ stacks'[task] = Append(stacks[task], FrameOf(Last'))
          /\ (CallStep /\ Last'.task = task /\ Last'.loop_type # "none")
                 => /\ stacks'[task] = <<>>
                    /\ "results" \in DOMAIN Last'.result
                    /\ Innermost(ret'[task]) = Last'.result]_vars

\* a nested search was classified as a loop: the chain of calls has returned and
\* the break result is the innermost sub_results
C10_Witness ==
    /\ log # <<>>
    /\ Last.nested
    /\ Last.loop_type # "none"
    /\ stacks[Last.task] = <<>>
    /\ ret[Last.task] # Last.result
    /\ Innermost(ret[Last.task]) = Last.result

\* the call of this step was classified as a loop
LoopStep == CallStep /\ Last'.loop_type # "none"

(* C11: a call classified as a loop, of any category, hands its caller a    *)
(* result value that carries the classification (a result set with an       *)
(* error or a partial marker), nothing is raised, and the detector stays    *)
(* usable: the task is idle again and the trace's state is in the store.    *)
(* (SpecRules)                                                              *)
C11_LoopIsAResult ==
    [][LoopStep
          => /\ ret'[Last'.task] = Last'.result
             /\ "results" \in DOMAIN Last'.result
             /\ \/ "error" \in DOMAIN Last'.result
                \/ "partial" \in DOMAIN Last'.result
             /\ stacks'[Last'.task] = <<>>
             /\ Last'.trace_id \in DOMAIN states'
             /\ states'[Last'.trace_id].loop_detected]_vars

\* a call was passed on a trace on which a loop of the generic kind was detected
\* before: the detector is still in use
C11_Witness ==
    /\ log # <<>>
    /\ Last.loop_type = "none"
    /\ Last.trace_id \in DOMAIN states
    /\ states[Last.trace_id].loop_detected
    /\ states[Last.trace_id].loop_signature \in global_patterns
    /\ Len(states[Last.trace_id].operations) >= 2

\* the history entries of st recorded with the key sig_key
WithKey(st, sig_key) ==
    {i \in 1..Len(st.operations) : SigKey(st.operations[i]) = sig_key}

\* the break result of the call e on the state st, with the chain given
BreakResult(e, st, chain) ==
    CASE e.loop_type = "exact_repetition" ->
            [results |-> <<>>,
             error |-> "Query loop detected - returning empty results",
             loop_info |-> [type |-> "exact_repetition",
                            repetitions |-> Cardinality(WithKey(st, e.sig_key))]]
      [] e.loop_type = "max_depth_exceeded" ->
            [results |-> <<"[Max depth reached]">>, partial |-> TRUE, depth |-> st.depth]
      [] e.loop_type = "circular_dependency" ->
            [results |-> <<>>, error |-> "Circular dependency detected", chain |-> chain]
      [] OTHER ->
            [results |-> <<>>, error |-> <<"Loop detected: ", e.loop_type>>,
             trace_id |-> e.trace_id]

\* the signature keys of the last (at most) five history entries
LastKeys(st) ==
    [i \in 1..Len(LastN(st.operations, 5)) |-> SigKey(LastN(st.operations, 5)[i])]

\* the fingerprints of the last (at most) five history entries
LastFingerprints(st) ==
    [i \in 1..Len(LastN(st.operations, 5)) |-> <<LastN(st.operations, 5)[i].query_hash>>]

(* C12 as stated: the break result is determined by the category, and for   *)
(* circular_dependency it carries the last few signature keys of the        *)
(* trace's history.  (SpecRules)                                            *)
C12_Original ==
    [][LoopStep
          => Last'.result = BreakResult(Last', states'[Last'.trace_id],
                                        LastKeys(states'[Last'.trace_id]))]_vars

(* C12 amended: exact_repetition gives an empty result set with an error    *)
(* and the number of recorded calls with the looping key; max_depth_exceeded *)
(* gives a partial-result marker with the depth of the trace;               *)
(* circular_dependency gives an empty result set with an error and the      *)
(* fingerprints (query hashes, without the operation) of the last five      *)
(* history entries; every other category gives an empty result set with    *)
(* the category name and the trace id.  (SpecRules)                         *)
C12_ResultByCategory ==
    [][LoopStep
          => Last'.result = BreakResult(Last', states'[Last'.trace_id],
                                        LastFingerprints(states'[Last'.trace_id]))]_vars

\* a circular_dependency on a history longer than the chain
C12_Witness ==
    /\ log # <<>>
    /\ Last.loop_type = "circular_dependency"
    /\ Len(states[Last.trace_id].operations) > 5
    /\ Last.result.chain = LastFingerprints(states[Last.trace_id])
    /\ Len(Last.result.chain) = 5

\* this step is a statistics snapshot of task
SnapshotStep(task) == ret'[task] # ret[task] /\ "active_traces" \in DOMAIN ret'[task]

\* the traces of the store that are not expired
ActiveTraces == {t \in DOMAIN states : ~Expired(t)}

(* C13: a snapshot reports the number of traces flagged as looped, the      *)
(* number of traces that are not expired at snapshot time and the maximum   *)
(* depth over these traces (0 when there are none), and changes no detector *)
(* state.  (SpecStats)                                                      *)
C13_Claim ==
    [][\A task \in DOMAIN ret :
          SnapshotStep(task)
              => /\ ret'[task].total_loops_detected
                        = Cardinality({t \in DOMAIN states : states[t].loop_detected})
                 /\ ret'[task].active_traces = Cardinality(ActiveTraces)
                 /\ \A t \in ActiveTraces : states[t].depth <= ret'[task].max_depth_seen
                 /\ \/ \E t \in ActiveTraces : states[t].depth = ret'[task].max_depth_seen
                    \/ ActiveTraces = {} /\ ret'[task].max_depth_seen = 0
                 /\ UNCHANGED <<states, global_patterns, max_depth, max_repeats,
                                time_window>>]_vars

\* a query after trimming, then lower-casing
Normalized(query) == LowerStr(Strip(query))

\* the calls k and j have the same operation and queries equal after normalization
SameCall(k, j) ==
    /\ log[k].operation = log[j].operation
    /\ Normalized(log[k].query) = Normalized(log[j].query)

(* C14: two calls with the same operation and queries that are equal after  *)
(* trimming and lower-casing have the same fingerprint and the same key,    *)
(* and are counted as one signature: the count of the key is the number of  *)
(* passed calls with that operation and normalized query.  (SpecCase)       *)
C14_FingerprintInsensitive ==
    \A k \in 1..Len(log) :
        /\ \A j \in 1..Len(log) :
               SameCall(k, j)
                   => /\ log[k].sig_key = log[j].sig_key
                      /\ log[k].sig_key[Len(log[k].sig_key)]
                             = log[j].sig_key[Len(log[j].sig_key)]
        /\ CountOf(states[log[k].trace_id].operation_counts, log[k].sig_key)
               = Cardinality({j \in 1..Len(log) : SameCall(k, j) /\ Passed(j)})

\* two passed calls with different spellings of a query are counted under one key
C14_Witness ==
    \E k, j \in 1..Len(log) :
        /\ log[k].query # log[j].query
        /\ LowerStr(log[k].query) # LowerStr(log[j].query)
        /\ Strip(log[k].query) # Strip(log[j].query)
        /\ SameCall(k, j)
        /\ Passed(k) /\ Passed(j)
        /\ states[log[k].trace_id].operation_counts[log[k].sig_key] = 2

(* C15: every trace state that is created is eventually removed from the    *)
(* store, when time keeps advancing past the window and calls keep being    *)
(* processed.  Stated for the states that exist at clock value 0, which the *)
(* clock outruns by more than the window.  (SpecLive)                       *)
C15_Claim ==
    \A t \in {"t1", "t2"} : (t \in DOMAIN states /\ now = 0) ~> (t \notin DOMAIN states)

\* the counts of the states a and b agree on every key, but for one more of key
SameCountsBut(a, b, key) ==
    \A k \in DOMAIN a.operation_counts \cup DOMAIN b.operation_counts \cup {key} :
        CountOf(b.operation_counts, k)
            = CountOf(a.operation_counts, k) + (IF k = key THEN 1 ELSE 0)

\* the counts of the states a and b agree on every key
SameCounts(a, b) ==
    \A k \in DOMAIN a.operation_counts \cup DOMAIN b.operation_counts :
        CountOf(b.operation_counts, k) = CountOf(a.operation_counts, k)

(* C16: a call that no rule matches appends its signature at the end of the *)
(* history of its trace, raises the count of its key by exactly 1 and sets  *)
(* the depth to max(old depth, depth); nothing else of the trace's state,   *)
(* no other trace and not the registry is changed by that step.  (Spec)     *)
C16_PassRecords ==
    [][(CallStep /\ Last'.loop_type = "none")
          => /\ states'[Last'.trace_id].operations
                    = Append(Found(Last'.trace_id).operations,
                             [operation |-> Last'.operation,
                              query_hash |-> Last'.sig_key[Len(Last'.sig_key)],
                              timestamp |-> now])
             /\ SameCountsBut(Found(Last'.trace_id), states'[Last'.trace_id], Last'.sig_key)
             /\ states'[Last'.trace_id].depth = Max(Found(Last'.trace_id).depth, Last'.depth)
             /\ states'[Last'.trace_id].loop_detected = Found(Last'.trace_id).loop_detected
             /\ states'[Last'.trace_id].loop_signature = Found(Last'.trace_id).loop_signature
             /\ DOMAIN states' = DOMAIN states \cup {Last'.trace_id}
             /\ \A u \in DOMAIN states \ {Last'.trace_id} : states'[u] = states[u]
             /\ global_patterns' = global_patterns]_vars

\* a passed call raised a count from 1 to 2 while another trace is in the store
C16_Witness ==
    /\ log # <<>>
    /\ Last.loop_type = "none"
    /\ Cardinality(DOMAIN states) = 2
    /\ Last.trace_id \in DOMAIN states
    /\ Len(states[Last.trace_id].operations) = 2
    /\ CountOf(states[Last.trace_id].operation_counts, Last.sig_key) = 2
    /\ stacks[Last.task] # <<>>

(* C17: a call classified as a loop leaves the history and every count of   *)
(* every trace unchanged and removes no trace: only the loop flag, the loop *)
(* signature and the depth of its own trace may change.  After a nested     *)
(* call the enclosing calls return in the same step, and the only traces    *)
(* removed are those their cleanup removes.  (Spec)                         *)
C17_LoopRecordsNothing ==
    [][LoopStep
          => /\ \A u \in DOMAIN states' :
                    /\ states'[u].operations = Found(u).operations
                    /\ SameCounts(Found(u), states'[u])
                    /\ states'[u].trace_id = u
                    /\ u # Last'.trace_id => states'[u] = states[u]
             /\ IF Last'.nested
                THEN DOMAIN states' = DOMAIN CleanupOldStates(states)
                ELSE DOMAIN states' = DOMAIN states \cup {Last'.trace_id}]_vars

\* a top-level call was classified as a loop on a trace with a history, next to
\* another trace with a history
C17_Witness ==
    /\ log # <<>>
    /\ Last.loop_type # "none"
    /\ ~Last.nested
    /\ Cardinality(DOMAIN states) = 2
    /\ \A u \in DOMAIN states : states[u].operations # <<>>
    /\ states[Last.trace_id].loop_signature = Last.sig_key
    /\ ret[Last.task] = Last.result

\* the calls logged on the trace t
CallsOn(t) == {k \in 1..Len(log) : log[k].trace_id = t}

\* the highest depth supplied by a call on the trace t, 0 if none is higher
HighestDepth(t) ==
    CHOOSE d \in {log[k].depth : k \in CallsOn(t)} \cup {0} :
        \A k \in CallsOn(t) : log[k].depth <= d

(* C18: the depth of a trace's state is the highest depth supplied by any   *)
(* call on the trace since the state was created (0 if none is higher), and *)
(* it never decreases while the state lives.  (SpecDepth: no state is       *)
(* evicted, so the log holds the calls since the creation)                  *)
C18_DepthIsHighest ==
    /\ [](\A t \in DOMAIN states : states[t].depth = HighestDepth(t))
    /\ [][\A t \in DOMAIN states \cap DOMAIN states' :
              states'[t].depth >= states[t].depth]_vars

\* a call at depth 0 on a trace whose depth is higher
C18_Witness ==
    /\ Len(log) >= 2
    /\ Last.depth = 0
    /\ states[Last.trace_id].depth > 0
    /\ states[Last.trace_id].depth = HighestDepth(Last.trace_id)

\* the calls logged on the trace t that were classified as a loop
LoopsOn(t) == {k \in CallsOn(t) : log[k].loop_type # "none"}

\* the most recent of them
LastLoopOn(t) == log[CHOOSE k \in LoopsOn(t) : \A j \in LoopsOn(t) : j <= k]

\* the loop flag of a trace is set exactly when a call on it was classified as a loop
FlagIffLoop ==
    \A t \in DOMAIN states : states[t].loop_detected <=> LoopsOn(t) # {}

(* C19 as stated: the loop flag is set exactly when a call on the trace was *)
(* classified as a loop, and the loop information of the state is the       *)
(* category of the detected loop.  (SpecDepth)                              *)
C19_Original ==
    /\ FlagIffLoop
    /\ \A t \in DOMAIN states :
           states[t].loop_detected
               => states[t].loop_signature = <<LastLoopOn(t).loop_type>>

(* C19 amended: the loop flag is set exactly when a call on the trace was   *)
(* classified as a loop and is never cleared while the state lives; the     *)
(* loop information of the state is the signature key of the most recent    *)
(* call classified as a loop (none while the flag is not set), not its      *)
(* category.  (SpecDepth)                                                   *)
C19_FlagAndSignature ==
    /\ [](/\ FlagIffLoop
          /\ \A t \in DOMAIN states :
                 states[t].loop_signature = IF states[t].loop_detected
                                            THEN LastLoopOn(t).sig_key
                                            ELSE NoSignature)
    /\ [][\A t \in DOMAIN states \cap DOMAIN states' :
              states[t].loop_detected => states'[t].loop_detected]_vars

\* a call was passed after a loop on the trace: the flag and the key of the loop stay
C19_Witness ==
    /\ Len(log) >= 3
    /\ Last.loop_type = "none"
    /\ states[Last.trace_id].loop_detected
    /\ states[Last.trace_id].loop_signature # Last.sig_key
    /\ states[Last.trace_id].loop_signature = LastLoopOn(Last.trace_id).sig_key
    /\ LastLoopOn(Last.trace_id).loop_type = "exact_repetition"

\* the signature keys of the last (at most) ten history entries
RecentKeys(st) ==
    [i \in 1..Len(LastN(st.operations, 10)) |-> SigKey(LastN(st.operations, 10)[i])]

\* for some n in {2, 3, 4} the last 2n of these keys are a block of n keys followed
\* by the same block
BlockRepeats(st) ==
    \E n \in 2..4 :
        /\ Len(RecentKeys(st)) >= 2 * n
        /\ \A i \in 1..n :
               RecentKeys(st)[Len(RecentKeys(st)) - n + i]
                   = RecentKeys(st)[Len(RecentKeys(st)) - 2 * n + i]

(* C20: the circular-dependency rule holds for a trace exactly when, for    *)
(* some n in {2, 3, 4}, the last 2n entries of the history (within its last *)
(* 10 entries) are a block of n keys followed by the same block: a call     *)
(* that no earlier rule matches is classified circular_dependency exactly   *)
(* then, as after the history A, B, A, B.  (SpecCircular)                   *)
C20_Claim ==
    [][(CallStep /\ ~Rule1(Last') /\ ~Rule2(Last') /\ ~Rule3(Last'))
          => (Last'.loop_type = "circular_dependency"
                  <=> BlockRepeats(Found(Last'.trace_id)))]_vars

(* C21: the rapid-repetition rule holds for a call exactly when at least 3  *)
(* entries recorded in the trace's history within the last 5 seconds have   *)
(* the fingerprint of the call's query, whatever the operation string: a    *)
(* call that the count and depth rules do not match is classified           *)
(* rapid_repetition exactly then.  (SpecRapid)                              *)
C21_Claim ==
    [][(CallStep /\ ~Rule1(Last') /\ ~Rule2(Last'))
          => (Last'.loop_type = "rapid_repetition" <=> Rule3(Last'))]_vars

(* C22: no operation of the detector adds a key to or removes a key from    *)
(* the global pattern registry: in every step the registry stays what it    *)
(* was, so it always equals the registry at construction.  (SpecSeeded)     *)
C22_RegistryConstant ==
    [][global_patterns' = global_patterns]_vars

\* a key that is not in the non-empty registry was detected as a loop on a trace,
\* next to another trace with a recorded history
C22_Witness ==
    /\ global_patterns # {}
    /\ \E t \in DOMAIN states :
           /\ states[t].loop_detected
           /\ states[t].loop_signature \notin global_patterns
    /\ \E t \in DOMAIN states : states[t].operations # <<>>
    /\ now > 0

\* the oldest history entry of the trace t of the store S is older than now - window
OldestTooOld(S, t) ==
    /\ S[t].operations # <<>>
    /\ S[t].operations[1].timestamp < now - time_window

\* the store S without the traces whose oldest entry is too old
WithoutOld(S) == [t \in {u \in DOMAIN S : ~OldestTooOld(S, u)} |-> S[t]]

\* a suspended call of task returns in this step
ReturnStep(task) == stacks[task] # <<>> /\ stacks'[task] = <<>>

(* C23: cleanup at time now removes exactly the traces whose oldest history *)
(* entry is older than now - window and keeps every other trace with its    *)
(* state unchanged, and a second cleanup at the same time changes nothing.  *)
(* Checked on every reachable store, and on every step in which suspended   *)
(* calls return (a chain of n calls runs n cleanups).  (Spec)               *)
C23_CleanupExact ==
    /\ [](/\ CleanupOldStates(states) = WithoutOld(states)
          /\ CleanupOldStates(CleanupOldStates(states)) = CleanupOldStates(states))
    /\ [][\A task \in DOMAIN stacks :
              (ReturnStep(task) /\ ~CallStep) => states' = WithoutOld(states)]_vars

\* a passed call has returned and its cleanup removed the call's own trace and kept
\* another one
C23_Witness ==
    /\ log # <<>>
    /\ Last.loop_type = "none"
    /\ stacks[Last.task] = <<>>
    /\ Last.trace_id \notin DOMAIN states
    /\ DOMAIN states # {}

(* C24 as stated: every call, whatever its classification, performs one     *)
(* cleanup pass before it returns: when a call has returned, no trace of    *)
(* the store has an oldest entry older than now - window.  (Spec)           *)
C24_Original ==
    [][\A task \in DOMAIN stacks :
          (stacks'[task] = <<>> /\ (ReturnStep(task) \/ (CallStep /\ Last'.task = task)))
              => \A t \in DOMAIN states' : ~OldestTooOld(states', t)]_vars

(* C24 amended: every passed call performs one cleanup pass after its       *)
(* memory operation, before it returns; a call classified as a loop returns *)
(* without a cleanup pass and removes nothing (after a nested one, the      *)
(* passed calls around it clean while they return).  (Spec)                 *)
C24_CleanupAfterPassedCalls ==
    [][\A task \in DOMAIN stacks :
          /\ ReturnStep(task) => \A t \in DOMAIN states' : ~OldestTooOld(states', t)
          /\ (LoopStep /\ Last'.task = task /\ ~Last'.nested)
                 => DOMAIN states \subseteq DOMAIN states']_vars

\* a top-level call classified as a loop has returned and a trace whose oldest entry
\* is older than now - window is still in the store
C24_Witness ==
    /\ log # <<>>
    /\ Last.loop_type # "none"
    /\ ~Last.nested
    /\ Last.time = now
    /\ stacks[Last.task] = <<>>
    /\ \E t \in DOMAIN states : OldestTooOld(states, t)

(* C25: cleanup never removes the state of a trace while a call on that     *)
(* trace is in progress: the trace of every suspended call is in the store. *)
(* (SpecConc)                                                               *)
C25_Claim ==
    \A task \in DOMAIN stacks : \A i \in 1..Len(stacks[task]) :
        stacks[task][i].trace_id \in DOMAIN states

(* C26: classification and recording of a call are one atomic step: a call  *)
(* is passed only when the count of its key, as it is in the store at that  *)
(* step, is below max_repeats, and the same step records the event and      *)
(* raises the count by 1; so under every interleaving no count exceeds      *)
(* max_repeats, and of two concurrent calls with one key on one trace only  *)
(* one is passed when one more repetition is allowed.  (SpecConc)           *)
C26_ClassifyAndRecordAtomic ==
    /\ [][(CallStep /\ Last'.loop_type = "none")
             => /\ CountOf(Found(Last'.trace_id).operation_counts, Last'.sig_key)
                       < max_repeats
                /\ CountOf(states'[Last'.trace_id].operation_counts, Last'.sig_key)
                       = CountOf(Found(Last'.trace_id).operation_counts, Last'.sig_key) + 1
                /\ Len(states'[Last'.trace_id].operations)
                       = Len(Found(Last'.trace_id).operations) + 1]_vars
    /\ [](\A t \in DOMAIN states : \A k \in DOMAIN states[t].operation_counts :
              states[t].operation_counts[k] <= max_repeats)

\* with max_repeats = 1, while a call of one task is suspended, the call of the other
\* task with the same key on the same trace is classified exact_repetition
C26_Witness ==
    /\ log # <<>>
    /\ max_repeats = 1
    /\ Last.loop_type = "exact_repetition"
    /\ \E task \in DOMAIN stacks \ {Last.task} :
           /\ stacks[task] # <<>>
           /\ stacks[task][1].trace_id = Last.trace_id
           /\ stacks[task][1].query = Last.query
           /\ stacks[task][1].operation = Last.operation

\* the signature keys the callers can submit
CallerKeys ==
    {SigKey(from_query(operation, query, 0)) :
        operation \in env.operations, query \in env.queries}

(* C27: in every reachable state, for every trace of the store and every    *)
(* signature key, the count of the key equals the number of history entries *)
(* with that key and is at most max_repeats (max_repeats >= 1); hence the   *)
(* history of a trace never holds more than |K| * max_repeats entries, K    *)
(* being the set of keys the callers submit.  (SpecDepth)                   *)
C27_CountsMatchHistory ==
    max_repeats >= 1
        => \A t \in DOMAIN states :
              /\ \A k \in CallerKeys \cup DOMAIN states[t].operation_counts :
                    /\ CountOf(states[t].operation_counts, k)
                           = Cardinality(WithKey(states[t], k))
                    /\ CountOf(states[t].operation_counts, k) <= max_repeats
              /\ Len(states[t].operations) <= Cardinality(CallerKeys) * max_repeats

\* every key of the callers has been recorded max_repeats = 2 times: the history
\* is full
C27_Witness ==
    /\ max_repeats = 2
    /\ \E t \in DOMAIN states :
          /\ Len(states[t].operations) = Cardinality(CallerKeys) * max_repeats
          /\ \A k \in CallerKeys : CountOf(states[t].operation_counts, k) = max_repeats

\* the sum of the values of the function f over the set D of its arguments
RECURSIVE SumOver(_, _)
SumOver(f, D) ==
    IF D = {}
    THEN 0
    ELSE LET x == CHOOSE y \in D : TRUE
         IN  f[x] + SumOver(f, D \ {x})

\* the value last returned to task is a statistics snapshot
IsSnapshot(task) == "active_traces" \in DOMAIN ret[task]

(* C28: in every reachable state the loop flag of a trace is set exactly    *)
(* when its loop signature is set, and in every statistics snapshot the     *)
(* numbers of the per-operation breakdown sum to total_loops_detected and   *)
(* total_loops_detected is at most active_traces.  (SpecStats)              *)
C28_FlagIffSignature ==
    /\ \A t \in DOMAIN states :
          states[t].loop_detected <=> states[t].loop_signature # NoSignature
    /\ \A task \in DOMAIN ret :
          IsSnapshot(task)
              => /\ SumOver(ret[task].loop_types, DOMAIN ret[task].loop_types)
                        = ret[task].total_loops_detected
                 /\ ret[task].total_loops_detected <= ret[task].active_traces

\* a snapshot that counts a flagged trace, taken of a store with more traces than
\* flagged ones
C28_Witness ==
    \E task \in DOMAIN ret :
        /\ IsSnapshot(task)
        /\ ret[task].total_loops_detected >= 1
        /\ ret[task].loop_types # << >>
        /\ ret[task].active_traces > ret[task].total_loops_detected

\* the state st matches the depth rule or the circular rule for every call
Latched(st) == st.depth >= max_depth \/ DetectCircularPattern(st)

(* C29: a call classified max_depth_exceeded or circular_dependency leaves  *)
(* its trace in a condition in which every later call on the trace, with    *)
(* any signature and any depth, is classified as a loop for as long as the  *)
(* state is in the store; such a call records nothing and removes no trace, *)
(* so the trace is still in that condition after it.  (SpecRules)           *)
C29_LatchedUntilEvicted ==
    [][CallStep
         => /\ (Last'.loop_type \in {"max_depth_exceeded", "circular_dependency"})
                  => /\ Last'.trace_id \in DOMAIN states'
                     /\ Latched(states'[Last'.trace_id])
            /\ (IF Last'.trace_id \in DOMAIN states
                THEN Latched(states[Last'.trace_id])
                ELSE FALSE)
                  => /\ Last'.loop_type # "none"
                     /\ DOMAIN states' = DOMAIN states
                     /\ states'[Last'.trace_id].operations
                            = states[Last'.trace_id].operations
                     /\ SameCounts(states[Last'.trace_id], states'[Last'.trace_id])
                     /\ Latched(states'[Last'.trace_id])
                     /\ stacks' = stacks]_vars

\* after a call at the depth limit, a call at depth 0 with a signature that is not
\* in the history was classified as a loop
C29_Witness ==
    /\ log # <<>>
    /\ Last.depth = 0
    /\ Last.loop_type = "max_depth_exceeded"
    /\ Last.trace_id \in DOMAIN states
    /\ states[Last.trace_id].depth >= max_depth
    /\ states[Last.trace_id].operations # <<>>
    /\ WithKey(states[Last.trace_id], Last.sig_key) = {}

\* the calls in progress of a task are one chain on one trace, each level one deeper
\* than its caller, all below max_depth
ChainBelowLimit(stack) ==
    \A i \in 1..Len(stack) :
        /\ stack[i].depth < max_depth
        /\ i > 1 => /\ stack[i].depth = stack[i - 1].depth + 1
                    /\ stack[i].trace_id = stack[i - 1].trace_id

\* a value the break policy returns
IsTerminal(result) == "error" \in DOMAIN result \/ "partial" \in DOMAIN result

(* C30: every passed call has a supplied depth strictly below max_depth; so *)
(* a chain of self-recursive calls on one trace, each level one deeper than *)
(* its caller, has at no time more than max_depth levels at work, and the   *)
(* nested call that arrives at max_depth gets a terminal result, with which *)
(* the whole chain returns.  (Spec)                                         *)
C30_DepthBoundsRecursion ==
    /\ [][(CallStep /\ Last'.loop_type = "none") => Last'.depth < max_depth]_vars
    /\ [](\A task \in DOMAIN stacks :
              /\ ChainBelowLimit(stacks[task])
              /\ (stacks[task] # <<>> /\ stacks[task][1].depth >= 0)
                    => Len(stacks[task]) <= max_depth)
    /\ [][(CallStep /\ Last'.nested /\ Last'.depth >= max_depth)
             => /\ Last'.loop_type # "none"
                /\ IsTerminal(Last'.result)
                /\ stacks'[Last'.task] = <<>>
                /\ "sub_results" \in DOMAIN ret'[Last'.task]
                /\ Innermost(ret'[Last'.task]) = Last'.result]_vars

\* a chain begun at depth 0 worked on max_depth levels; its nested call at max_depth
\* was classified max_depth_exceeded and the chain has returned with that result
C30_Witness ==
    /\ log # <<>>
    /\ Last.nested
    /\ Last.depth = max_depth
    /\ Last.loop_type = "max_depth_exceeded"
    /\ stacks[Last.task] = <<>>
    /\ "sub_results" \in DOMAIN ret[Last.task]
    /\ \E t \in DOMAIN states : Len(states[t].operations) = max_depth

====
